---- MODULE Spec2Model ----
(***************************************************************************)
(* Credential manager (TGTManager), the retry-on-rejection protocol of     *)
(* EPIASConsumptionCollector.get_realtime_consumption_data, and the smart  *)
(* upsert of EnergyDataRepository / EPIASDataRepository.                   *)
(*                                                                         *)
(* Python values are tagged records so that None, NaN, strings, numbers    *)
(* and datetimes stay distinct: PyNone, Str(s), Dt(t), ...                 *)
(* Time is the local clock in minutes.                                     *)
(***************************************************************************)
EXTENDS Integers, Sequences, FiniteSets, TLC

VARIABLES
    now,            \* datetime.now(): the local clock, in minutes
    haveCreds,      \* EPIAS_USERNAME and EPIAS_PASSWORD are both set
    tgt,            \* TGTManager.tgt
    expiry_time,    \* TGTManager.expiry_time
    cache_file,     \* content of tgt_cache.json
    pc,             \* position inside get_realtime_consumption_data
    req,            \* the current (or last) request: its events and result
    last,           \* history: the most recent get_valid_tgt call of this manager
    prev,           \* history: the get_valid_tgt call before that one
    boot,           \* history: how the construction of this manager went
    table,          \* the table this pipeline loads (the tables are disjoint)
    power_data,     \* MongoDB collection power_data, in natural order
    carbon_intensity,           \* MongoDB collection carbon_intensity
    epias_power_consumption,    \* PostgreSQL table epias_power_consumption
    call,           \* history: the upsert call under observation
    prior,          \* history: the observed call right before `call`
    writer          \* a save_power_data call taken one store operation at a time

tgtVars == <<now, haveCreds, tgt, expiry_time, cache_file, pc, req, last, prev,
             boot>>

storeVars == <<table, power_data, carbon_intensity, epias_power_consumption,
               call, prior, writer>>

vars == <<now, haveCreds, tgt, expiry_time, cache_file, pc, req, last, prev,
          boot, table, power_data, carbon_intensity, epias_power_consumption,
          call, prior, writer>>

----------------------------------------------------------------------------
(* Bounds of the model *)

MaxNow == 115

\* steps by which the clock advances between two operations; with a
\* lifetime of 115 they reach expiry - 1, expiry and expiry + 1
TickSteps == {57, 58}

----------------------------------------------------------------------------
(* Python values *)

PyNone == [none |-> TRUE]

Str(s) == [str |-> s]

Dt(t) == [dt |-> t]

\* `not x` for a string-or-None value
Falsy(x) == x = PyNone \/ x = Str("")

\* datetime.isoformat() and datetime.fromisoformat()
Isoformat(d) == [iso |-> d.dt]

FromIsoformat(s) == Dt(s.iso)

\* timedelta(hours=1, minutes=55), tgt_manager.py line 44
LifetimeHours == 1

LifetimeMinutes == 55

\* the comment of line 43: the authority's tickets last 2 hours
AuthorityHours == 2

\* a lifetime without the 5-minute buffer
Lifetime_NoBuffer == AuthorityHours * 60

Lifetime == LifetimeHours * 60 + LifetimeMinutes

----------------------------------------------------------------------------
(* The cache file *)

NoFile == [file |-> "absent"]

\* a file json.load cannot parse (truncated by a failed write)
Corrupt == [file |-> "corrupt"]

CacheData(t, e, c) == [file |-> "json", tgt |-> t, expiry_time |-> e, created_at |-> c]

HasJson(f) == f.file = "json"

\* outcomes of writing the cache file: written, open() raised (file as it
\* was), json.dump raised after open() truncated the file
WriteOutcomes == {"ok", "open_fail", "dump_fail"}

\* in-memory fields and cache file of one manager, as one value
Mgr(t, e, f) == [tgt |-> t, expiry_time |-> e, cache_file |-> f]

Cur == Mgr(tgt, expiry_time, cache_file)

----------------------------------------------------------------------------
(* The authentication endpoint and the data endpoint *)

\* response bodies of the authentication endpoint: text around the ticket
Body(pre, core, post) == [pre |-> pre, core |-> core, post |-> post]

\* str.strip(): the text without leading and trailing whitespace
Strip(b) == b.core

AuthBodies == {Body("", "TGT-a", ""), Body(" ", "TGT-b", "\n")}

\* status 0 stands for no response: requests.post raised, or no request was
\* made
AuthResponses ==
    {[status |-> s, text |-> b] : s \in {200, 201}, b \in AuthBodies}
    \cup {[status |-> 401, text |-> Body("", "", "")],
          [status |-> 0, text |-> Body("", "", "")]}

\* json = FALSE: response.json() raises on a 200 answer
DataResponses ==
    {[status |-> 200, json |-> TRUE], [status |-> 200, json |-> FALSE],
     [status |-> 401, json |-> FALSE], [status |-> 500, json |-> FALSE],
     [status |-> 0, json |-> FALSE]}

----------------------------------------------------------------------------
(* TGTManager *)

\* save_tgt_to_cache(tgt) at local time t
save_tgt_to_cache(m, token, t, io) ==
    LET expiry == Dt(t + Lifetime)
        data == CacheData(token, Isoformat(expiry), Isoformat(Dt(t)))
    IN  CASE io = "ok" -> Mgr(token, expiry, data)
          [] io = "open_fail" -> m
          [] io = "dump_fail" -> [m EXCEPT !.cache_file = Corrupt]

\* a load_cached_tgt that never adopts what the file holds
load_cached_tgt_Ignoring(m, t, readable) == m

\* a load_cached_tgt that adopts the file's credential without comparing its
\* expiry with the clock
load_cached_tgt_Unchecked(m, t, readable) ==
    IF m.cache_file = NoFile THEN m
    ELSE IF ~readable \/ ~HasJson(m.cache_file) THEN m
    ELSE IF Falsy(m.cache_file.tgt) \/ Falsy(m.cache_file.expiry_time) THEN m
    ELSE Mgr(m.cache_file.tgt, FromIsoformat(m.cache_file.expiry_time),
             m.cache_file)

\* load_cached_tgt() at local time t; readable = FALSE: open() raises
load_cached_tgt(m, t, readable) ==
    IF m.cache_file = NoFile THEN m
    ELSE IF ~readable \/ ~HasJson(m.cache_file) THEN m
    ELSE IF Falsy(m.cache_file.tgt) \/ Falsy(m.cache_file.expiry_time) THEN m
    ELSE IF t < FromIsoformat(m.cache_file.expiry_time).dt
         THEN Mgr(m.cache_file.tgt, FromIsoformat(m.cache_file.expiry_time),
                  m.cache_file)
         ELSE m

\* is_tgt_valid with the expiry instant itself still counted as valid
is_tgt_valid_Inclusive(m, t) ==
    IF Falsy(m.tgt) \/ m.expiry_time = PyNone THEN FALSE
    ELSE t <= m.expiry_time.dt

is_tgt_valid(m, t) ==
    IF Falsy(m.tgt) \/ m.expiry_time = PyNone THEN FALSE
    ELSE t < m.expiry_time.dt

\* get_fresh_tgt dropping the credential when the endpoint refuses
get_fresh_tgt_Dropping(m, t, creds, resp, io) ==
    IF ~creds THEN [m |-> m, ret |-> PyNone, posts |-> 0, status |-> 0]
    ELSE IF resp.status \in {200, 201}
         THEN [m |-> save_tgt_to_cache(m, Str(Strip(resp.text)), t, io),
               ret |-> Str(Strip(resp.text)), posts |-> 1, status |-> resp.status]
         ELSE [m |-> Mgr(PyNone, PyNone, NoFile), ret |-> PyNone, posts |-> 1,
               status |-> resp.status]

\* get_fresh_tgt(): the manager afterwards, the value returned and the
\* number of requests made to the authentication endpoint
get_fresh_tgt(m, t, creds, resp, io) ==
    IF ~creds THEN [m |-> m, ret |-> PyNone, posts |-> 0, status |-> 0]
    ELSE IF resp.status = 0
         THEN [m |-> m, ret |-> PyNone, posts |-> 1, status |-> resp.status]
    ELSE IF resp.status \in {200, 201}
         THEN [m |-> save_tgt_to_cache(m, Str(Strip(resp.text)), t, io),
               ret |-> Str(Strip(resp.text)), posts |-> 1, status |-> resp.status]
         ELSE [m |-> m, ret |-> PyNone, posts |-> 1, status |-> resp.status]

get_valid_tgt(m, t, creds, resp, io) ==
    IF is_tgt_valid(m, t)
    THEN [m |-> m, ret |-> m.tgt, posts |-> 0, status |-> 0]
    ELSE get_fresh_tgt(m, t, creds, resp, io)

\* clear_cache(); removable = FALSE: os.remove raises
clear_cache(m, removable) ==
    IF m.cache_file # NoFile /\ ~removable THEN m
    ELSE Mgr(PyNone, PyNone, NoFile)

get_tgt_status(m, t) ==
    IF is_tgt_valid(m, t)
    THEN [valid |-> TRUE, expires_at |-> Isoformat(m.expiry_time)]
    ELSE [valid |-> FALSE, expires_at |-> PyNone]

----------------------------------------------------------------------------
(* pandas values of the data frames handed to the upsert *)

\* a float
Num(n) == [num |-> n]

\* float('nan')
NaN == [nan |-> TRUE]

\* pd.NaT, what pd.to_datetime makes of a missing datetime
NaT == [nat |-> TRUE]

\* a timezone-aware pd.Timestamp: the wall-clock reading (in hours) and the
\* UTC offset (in hours) it carries
TS(wall, off) == [wall |-> wall, off |-> off]

\* the instant a Timestamp denotes
Instant(ts) == ts.wall - ts.off

\* pd.isna(value)
IsNa(v) == v = NaN \/ v = PyNone \/ v = NaT

\* Timestamp.strftime("%Y-%m-%dT%H:%M:%S.000Z"): the wall-clock reading
\* followed by the literal ".000Z"; the offset is not rendered
Strftime(ts) == Str(<<ts.wall, ".000Z">>)

\* Timestamp.isoformat(): the wall-clock reading and the offset
TsIsoformat(ts) == Str(<<ts.wall, ts.off>>)

\* PostgreSQL reading an ISO string into TIMESTAMP WITH TIME ZONE
ParseTimestamptz(s) == s.str[1] - s.str[2]

\* the outcome of one upsert call; failed is the position of the record at
\* which a store operation raised, 0 when none did
Outcome(store, status, ins, upd, skp) ==
    [store |-> store, status |-> status, inserted |-> ins, updated |-> upd,
     skipped |-> skp, failed |-> 0]

----------------------------------------------------------------------------
(* MongoDB collection operations used by EnergyDataRepository *)

WithId(d, id) == [k \in DOMAIN d \cup {"_id"} |-> IF k = "_id" THEN id ELSE d[k]]

\* {k: v for k, v in existing_record.items() if k != '_id'}
WithoutId(doc) == [k \in DOMAIN doc \ {"_id"} |-> doc[k]]

\* Python's == on two values: nan is not equal to nan
PyEq(x, y) == x = y /\ x # NaN

\* Python's == on two dicts
PyDictEq(a, b) == DOMAIN a = DOMAIN b /\ \A k \in DOMAIN a : PyEq(a[k], b[k])

\* a query {field: value}: equality on every field; a None value also
\* matches a document without the field
Matches(doc, q) ==
    \A k \in DOMAIN q :
        IF k \in DOMAIN doc THEN doc[k] = q[k] ELSE q[k] = PyNone

\* a lookup that never finds the document
find_one_Blind(coll, q) == 0

\* the position of the first matching document in natural order, 0 if none
find_one(coll, q) ==
    IF \E i \in 1..Len(coll) : Matches(coll[i], q)
    THEN CHOOSE i \in 1..Len(coll) :
             Matches(coll[i], q) /\ \A j \in 1..(i - 1) : ~Matches(coll[j], q)
    ELSE 0

\* an insert that empties the collection first
insert_one_Alone(coll, d) == <<WithId(d, 1)>>

\* insert_one: the document gets a fresh _id and goes last
insert_one(coll, d) == Append(coll, WithId(d, Len(coll) + 1))

\* a replace_one that reports a modification and leaves the document
replace_one_Untouched(coll, q, d) == [coll |-> coll, modified_count |-> 1]

\* an update of the fields the replacement names ($set), keeping the others
replace_one_Merging(coll, q, d) ==
    LET i == find_one(coll, q)
    IN  IF i = 0 THEN [coll |-> coll, modified_count |-> 0]
        ELSE LET doc == [k \in DOMAIN coll[i] \cup DOMAIN d |->
                            IF k \in DOMAIN d THEN d[k] ELSE coll[i][k]]
             IN  [coll |-> [coll EXCEPT ![i] = doc],
                  modified_count |-> IF doc = coll[i] THEN 0 ELSE 1]

\* replace_one(filter, replacement): the first match keeps its _id and takes
\* the replacement's fields; modified_count is 0 when nothing changed
replace_one(coll, q, d) ==
    LET i == find_one(coll, q)
    IN  IF i = 0 THEN [coll |-> coll, modified_count |-> 0]
        ELSE LET doc == WithId(d, coll[i]["_id"])
             IN  [coll |-> [coll EXCEPT ![i] = doc],
                  modified_count |-> IF doc = coll[i] THEN 0 ELSE 1]

----------------------------------------------------------------------------
(* EnergyDataRepository *)

\* the row dict with its NaN values left in
PowerRowDict_KeepNaN(row) ==
    [k \in DOMAIN row |->
        IF k = "datetime" THEN Strftime(row["datetime"]) ELSE row[k]]

\* lines 34-41: row.to_dict() with the datetime standardized and NaN values
\* replaced by None
PowerRowDict(row) ==
    [k \in DOMAIN row |->
        IF k = "datetime" THEN Strftime(row["datetime"])
        ELSE IF IsNa(row[k]) THEN PyNone ELSE row[k]]

\* lines 96-118: the same, with updatedAt and createdAt standardized too
CarbonRowDict(row) ==
    [k \in DOMAIN row |->
        IF k = "datetime" THEN Strftime(row["datetime"])
        ELSE IF k \in {"updatedAt", "createdAt"} /\ ~IsNa(row[k]) THEN Strftime(row[k])
        ELSE IF IsNa(row[k]) THEN PyNone ELSE row[k]]

\* lines 28-32: the filter for datetime + zone
FilterQuery(row) == [datetime |-> Strftime(row["datetime"]), zone |-> row["zone"]]

\* lines 46-65: one record, given what find_one returned for it (<<>> for
\* None, <<document>> otherwise) and the collection as it is at the write
ReconcileFound(acc, existing_record, q, row_dict) ==
    IF existing_record # <<>>
    THEN IF PyDictEq(WithoutId(existing_record[1]), row_dict)
         THEN [acc EXCEPT !.skipped = @ + 1]
         ELSE LET result == replace_one(acc.store, q, row_dict)
              IN  IF result.modified_count > 0
                  THEN [acc EXCEPT !.store = result.coll, !.updated = @ + 1]
                  ELSE [acc EXCEPT !.store = result.coll]
    ELSE [acc EXCEPT !.store = insert_one(acc.store, row_dict), !.inserted = @ + 1]

\* what find_one returns: None or the document
Found(coll, q) ==
    IF find_one(coll, q) = 0 THEN <<>> ELSE <<coll[find_one(coll, q)]>>

\* lines 43-65: one record against the collection, with no other writer
UpsertDocument(acc, q, row_dict) ==
    ReconcileFound(acc, Found(acc.store, q), q, row_dict)

\* the loop of save_power_data from row i on; NaT.strftime raises and the
\* exception leaves the function, and so does the error pymongo raises when
\* the server stops answering at the find_one of record `down` (0: it
\* answers throughout)
RECURSIVE PowerLoop(_, _, _, _)
PowerLoop(acc, df, i, down) ==
    IF i > Len(df) THEN acc
    ELSE IF df[i]["datetime"] = NaT THEN [acc EXCEPT !.status = "raised"]
    ELSE IF i = down THEN [acc EXCEPT !.status = "raised", !.failed = i]
    ELSE PowerLoop(UpsertDocument(acc, FilterQuery(df[i]), PowerRowDict(df[i])),
                   df, i + 1, down)

save_power_data(coll, power_df, down) ==
    PowerLoop(Outcome(coll, "ok", 0, 0, 0), power_df, 1, down)

RECURSIVE CarbonLoop(_, _, _, _)
CarbonLoop(acc, df, i, down) ==
    IF i > Len(df) THEN acc
    ELSE IF df[i]["datetime"] = NaT THEN [acc EXCEPT !.status = "raised"]
    ELSE IF i = down THEN [acc EXCEPT !.status = "raised", !.failed = i]
    ELSE CarbonLoop(UpsertDocument(acc, FilterQuery(df[i]), CarbonRowDict(df[i])),
                    df, i + 1, down)

save_carbon_data(coll, carbon_df, down) ==
    CarbonLoop(Outcome(coll, "ok", 0, 0, 0), carbon_df, 1, down)

----------------------------------------------------------------------------
(* EPIASDataRepository *)

\* the row of epias_power_consumption with this datetime, 0 if none
RowAt(tbl, instant) ==
    IF \E i \in 1..Len(tbl) : tbl[i].datetime = instant
    THEN CHOOSE i \in 1..Len(tbl) : tbl[i].datetime = instant
    ELSE 0

\* CURRENT_TIMESTAMP is kept relative to the running call: 0 stands for any
\* time before the call began, i for the time of its i-th statement. At the
\* start of a call every stored time is therefore 0.
Earlier(tbl) ==
    [i \in 1..Len(tbl) |-> [tbl[i] EXCEPT !.created_at = 0, !.updated_at = 0]]

\* the statement without its WHERE clause: a conflicting row is always
\* rewritten
ExecuteUpsert_NoWhere(tbl, datetime_str, consumption_mwh, current_timestamp) ==
    LET instant == ParseTimestamptz(datetime_str)
        i == RowAt(tbl, instant)
    IN  IF i = 0
        THEN [tbl |-> Append(tbl, [id |-> Len(tbl) + 1, datetime |-> instant,
                                   consumption_mwh |-> consumption_mwh,
                                   created_at |-> current_timestamp,
                                   updated_at |-> current_timestamp]),
              result |-> <<TRUE>>]
        ELSE [tbl |-> [tbl EXCEPT ![i].consumption_mwh = consumption_mwh,
                                  ![i].updated_at = current_timestamp],
              result |-> <<FALSE>>]

\* the statement on a table without UNIQUE(datetime): every record is a new
\* row
ExecuteUpsert_NoUnique(tbl, datetime_str, consumption_mwh, current_timestamp) ==
    [tbl |-> Append(tbl, [id |-> Len(tbl) + 1,
                          datetime |-> ParseTimestamptz(datetime_str),
                          consumption_mwh |-> consumption_mwh,
                          created_at |-> current_timestamp,
                          updated_at |-> current_timestamp]),
     result |-> <<TRUE>>]

\* the statement with a conflict target that every stored row meets: once
\* the table has a row, that row takes every later record
ExecuteUpsert_AnyRow(tbl, datetime_str, consumption_mwh, current_timestamp) ==
    IF tbl = <<>>
    THEN ExecuteUpsert_NoWhere(tbl, datetime_str, consumption_mwh, current_timestamp)
    ELSE [tbl |-> [tbl EXCEPT ![1].consumption_mwh = consumption_mwh,
                              ![1].updated_at = current_timestamp],
          result |-> <<FALSE>>]

\* the statement with ON CONFLICT DO NOTHING: a conflicting row stays as the
\* first record of its instant left it
ExecuteUpsert_DoNothing(tbl, datetime_str, consumption_mwh, current_timestamp) ==
    IF RowAt(tbl, ParseTimestamptz(datetime_str)) = 0
    THEN ExecuteUpsert_NoWhere(tbl, datetime_str, consumption_mwh, current_timestamp)
    ELSE [tbl |-> tbl, result |-> <<>>]

\* lines 87-100: INSERT ... ON CONFLICT (datetime) DO UPDATE ... WHERE the
\* stored value differs, RETURNING (xmax = 0): the table afterwards and the
\* row fetchone() returns (None when the statement touched no row). The
\* serial id is the next one (gaps left by conflicting inserts are not kept).
ExecuteUpsert(tbl, datetime_str, consumption_mwh, current_timestamp) ==
    LET instant == ParseTimestamptz(datetime_str)
        i == RowAt(tbl, instant)
    IN  IF i = 0
        THEN [tbl |-> Append(tbl, [id |-> Len(tbl) + 1, datetime |-> instant,
                                   consumption_mwh |-> consumption_mwh,
                                   created_at |-> current_timestamp,
                                   updated_at |-> current_timestamp]),
              result |-> <<TRUE>>]
        ELSE IF tbl[i].consumption_mwh # consumption_mwh
        THEN [tbl |-> [tbl EXCEPT ![i].consumption_mwh = consumption_mwh,
                                  ![i].updated_at = current_timestamp],
              result |-> <<FALSE>>]
        ELSE [tbl |-> tbl, result |-> <<>>]

\* lines 67-110: the i-th record; result <<>> is None
UpsertRow(acc, row, i) ==
    LET x == ExecuteUpsert(acc.store, TsIsoformat(row["datetime"]),
                           row["consumption_mwh"], i)
    IN  IF x.result # <<>> /\ x.result[1]
        THEN [acc EXCEPT !.store = x.tbl, !.inserted = @ + 1]
        ELSE IF x.result # <<>>
        THEN [acc EXCEPT !.store = x.tbl, !.updated = @ + 1]
        ELSE [acc EXCEPT !.store = x.tbl, !.skipped = @ + 1]

\* a loop that logs the failed statement and goes on with the next record
RECURSIVE ConsumptionLoop_Through(_, _, _, _)
ConsumptionLoop_Through(acc, df, i, down) ==
    IF i > Len(df) THEN acc
    ELSE IF df[i]["datetime"] = NaT \/ df[i]["consumption_mwh"] = PyNone
    THEN [acc EXCEPT !.status = "false"]
    ELSE IF i = down
    THEN ConsumptionLoop_Through([acc EXCEPT !.status = "false", !.failed = i],
                                 df, i + 1, down)
    ELSE ConsumptionLoop_Through(UpsertRow(acc, df[i], i), df, i + 1, down)

\* the loop of save_consumption_data; NaT.strftime (line 80) and float(None)
\* (line 85) raise, cursor.execute raises when the server stops answering at
\* record `down` (0: it answers throughout), and the handler at line 124
\* returns False; the statements before it were committed one by one
\* (autocommit)
RECURSIVE ConsumptionLoop(_, _, _, _)
ConsumptionLoop(acc, df, i, down) ==
    IF i > Len(df) THEN acc
    ELSE IF df[i]["datetime"] = NaT \/ df[i]["consumption_mwh"] = PyNone
    THEN [acc EXCEPT !.status = "false"]
    ELSE IF i = down THEN [acc EXCEPT !.status = "false", !.failed = i]
    ELSE ConsumptionLoop(UpsertRow(acc, df[i], i), df, i + 1, down)

save_consumption_data(tbl, consumption_df, down) ==
    IF consumption_df = <<>> THEN Outcome(Earlier(tbl), "false", 0, 0, 0)
    ELSE ConsumptionLoop(Outcome(Earlier(tbl), "ok", 0, 0, 0), consumption_df, 1,
                         down)

----------------------------------------------------------------------------
(* The data frames the pipelines hand to the repositories *)

\* the longest data frame of one call
MaxBatch == 2

\* the most rows a store holds
MaxRows == 2

\* transform_power_breakdown_history: UTC timestamps, a zone, a float column;
\* pd.to_datetime turns a missing datetime into NaT
PowerRows ==
    [datetime : {TS(0, 0)}, zone : {Str("TR")}, powerConsumptionTotal : {Num(1), NaN}]
    \cup [datetime : {TS(0, 0)}, zone : {Str("DE")}, powerConsumptionTotal : {Num(1)}]
    \cup [datetime : {NaT}, zone : {Str("TR")}, powerConsumptionTotal : {Num(1)}]

\* the same records when the response lists a production source: the frame
\* has one more column (production_<source>), NaN where a record lacks it
PowerRowsWide ==
    [datetime : {TS(0, 0)}, zone : {Str("TR")}, powerConsumptionTotal : {Num(1)},
     production_wind : {Num(1), NaN}]

\* transform_carbon_intensity_history: entry.get("zone") is None when the
\* response has no zone; updatedAt is a timestamp or missing
CarbonRows ==
    [datetime : {TS(0, 0)}, zone : {Str("TR")}, carbonIntensity : {Num(1)},
     updatedAt : {TS(0, 0), NaT}]
    \cup [datetime : {TS(1, 0)}, zone : {PyNone}, carbonIntensity : {NaN},
          updatedAt : {TS(1, 0)}]
    \cup [datetime : {NaT}, zone : {Str("TR")}, carbonIntensity : {Num(1)},
          updatedAt : {TS(0, 0)}]

\* process_consumption_data: timestamps with the offset of the response
ConsumptionRows ==
    [datetime : {TS(0, 0)}, consumption_mwh : {Num(1)}]
    \cup [datetime : {TS(1, 1)}, consumption_mwh : {Num(1), NaN}]
    \cup [datetime : {TS(1, 0), NaT}, consumption_mwh : {Num(1)}]

Frames(rows) == UNION {[1..n -> rows] : n \in 0..MaxBatch}

\* df.sort_values('datetime'): ascending instants, NaT last
Sorted(df) ==
    \A i, j \in 1..Len(df) :
        i < j => \/ df[j]["datetime"] = NaT
                 \/ /\ df[i]["datetime"] # NaT
                    /\ Instant(df[i]["datetime"]) <= Instant(df[j]["datetime"])

\* a data frame has one set of columns
PowerFrames == Frames(PowerRows) \cup Frames(PowerRowsWide)

CarbonFrames == Frames(CarbonRows)

ConsumptionFrames == {df \in Frames(ConsumptionRows) : Sorted(df)}

----------------------------------------------------------------------------
(* The upsert calls as the properties see them *)

NoUpsert == [observed |-> FALSE]

\* no save_power_data call is running
NoWriter == [pc |-> "idle"]

\* the store the process writes to
Store ==
    CASE table = "power_data" -> power_data
      [] table = "carbon_intensity" -> carbon_intensity
      [] table = "epias_power_consumption" -> epias_power_consumption

\* the identity under which a record is looked up
Identity(row) ==
    IF table = "epias_power_consumption" THEN Instant(row["datetime"])
    ELSE FilterQuery(row)

\* the identity of a stored row
StoredIdentity(r) ==
    IF table = "epias_power_consumption" THEN r.datetime
    ELSE [datetime |-> r["datetime"], zone |-> r["zone"]]

\* the fields of a record besides its identity
Payload(row) ==
    IF table = "epias_power_consumption" THEN row["consumption_mwh"]
    ELSE [k \in DOMAIN row \ {"datetime", "zone"} |-> row[k]]

HasIdentity(row) == row["datetime"] # NaT

DistinctIdentities(df) ==
    /\ \A i \in 1..Len(df) : HasIdentity(df[i])
    /\ \A i, j \in 1..Len(df) : i # j => Identity(df[i]) # Identity(df[j])

\* how a data frame relates to the one of the call before it
Relation(before, df) ==
    IF before = df THEN "same"
    ELSE IF /\ Len(before) = Len(df)
            /\ \A i \in 1..Len(df) :
                 /\ HasIdentity(before[i]) /\ HasIdentity(df[i])
                 /\ Identity(before[i]) = Identity(df[i])
                 /\ Payload(before[i]) # Payload(df[i])
    THEN "conflict"
    ELSE "other"

\* what is kept of a call
UpsertCall(df, out) ==
    [observed |-> TRUE, df |-> df, status |-> out.status, inserted |-> out.inserted,
     updated |-> out.updated, skipped |-> out.skipped, failed |-> out.failed]

\* what is kept of the call before it: how the two data frames relate and,
\* when they do, how the earlier call ended
Prior(c, df) ==
    IF ~c.observed THEN NoUpsert
    ELSE IF Relation(c.df, df) = "other" THEN [observed |-> TRUE, relation |-> "other"]
    ELSE [observed |-> TRUE, relation |-> Relation(c.df, df), status |-> c.status,
          inserted |-> c.inserted, df |-> c.df]

----------------------------------------------------------------------------
(* History kept for the properties *)

\* no get_valid_tgt call yet
NoCall == [called |-> FALSE]

\* one get_valid_tgt call: when, the manager before and after, what it
\* returned, how many requests it made to the authentication endpoint and
\* the status of the answer, and whether a clear_cache ran between the
\* previous call and this one
CallRec(t, pre, out, afterClear) ==
    [called |-> TRUE, at |-> t, pre |-> pre, post |-> out.m, ret |-> out.ret,
     posts |-> out.posts, status |-> out.status, afterClear |-> afterClear]

\* what is kept of the call before the last one
Summary(c) ==
    IF c.called THEN [called |-> TRUE, at |-> c.at, ret |-> c.ret, posts |-> c.posts]
    ELSE NoCall

Event(e, tok, status) == [ev |-> e, tok |-> tok, status |-> status]

NoReq == [trace |-> <<>>, tok |-> PyNone, result |-> "none"]

\* __init__ (line 38): load_cached_tgt() read the cache file or found none
\* ("loaded"), or open() raised on it ("unreadable"); "running" once the
\* manager has been asked for a ticket
Booted(f, readable) == IF f # NoFile /\ ~readable THEN "unreadable" ELSE "loaded"

SetMgr(m) ==
    /\ tgt' = m.tgt
    /\ expiry_time' = m.expiry_time
    /\ cache_file' = m.cache_file

----------------------------------------------------------------------------
(* Actions *)

Init ==
    /\ now = 0
    /\ haveCreds \in BOOLEAN
    /\ tgt = PyNone
    /\ expiry_time = PyNone
    /\ cache_file = NoFile
    /\ pc = "idle"
    /\ req = NoReq
    /\ last = NoCall
    /\ prev = NoCall
    /\ boot = "loaded"
    /\ table = "epias_power_consumption"
    /\ power_data = <<>>
    /\ carbon_intensity = <<>>
    /\ epias_power_consumption = <<>>
    /\ call = NoUpsert
    /\ prior = NoUpsert
    /\ writer = NoWriter

\* time passes
Tick ==
    \E d \in TickSteps :
        /\ now + d <= MaxNow
        /\ now' = now + d
        /\ UNCHANGED <<haveCreds, tgt, expiry_time, cache_file, pc, req, last, prev, boot>>
        /\ UNCHANGED storeVars

\* EPIASConsumptionCollector(): a new process constructs the collector and
\* its TGTManager, which loads the cache
Restart ==
    /\ pc \in {"idle", "exited"}
    /\ pc' = "idle"
    /\ \E readable \in BOOLEAN :
           /\ SetMgr(load_cached_tgt(Mgr(PyNone, PyNone, cache_file), now, readable))
           /\ boot' = Booted(cache_file, readable)
    /\ req' = NoReq
    /\ last' = NoCall
    /\ prev' = NoCall
    /\ UNCHANGED <<now, haveCreds>>
    /\ UNCHANGED storeVars

\* tgt_manager.py run as a script (lines 171-189): a new process constructs
\* a manager, calls get_valid_tgt once and exits
TgtManagerMain ==
    /\ pc \in {"idle", "exited"}
    /\ pc' = "exited"
    /\ \E readable \in BOOLEAN, resp \in AuthResponses, io \in WriteOutcomes :
           LET m0 == load_cached_tgt(Mgr(PyNone, PyNone, cache_file), now, readable)
               out == get_valid_tgt(m0, now, haveCreds, resp, io)
           IN  /\ SetMgr(out.m)
               /\ last' = CallRec(now, m0, out, FALSE)
               /\ boot' = Booted(cache_file, readable)
    /\ prev' = NoCall
    /\ req' = NoReq
    /\ UNCHANGED <<now, haveCreds>>
    /\ UNCHANGED storeVars

\* get_realtime_consumption_data, lines 44-53: the first get_valid_tgt
ReqBegin ==
    /\ pc = "idle"
    /\ \E resp \in AuthResponses, io \in WriteOutcomes :
           LET out == get_valid_tgt(Cur, now, haveCreds, resp, io)
               seen == IF out.posts = 1
                       THEN <<Event("auth", out.ret, 0)>> ELSE <<>>
           IN  /\ SetMgr(out.m)
               /\ last' = CallRec(now, Cur, out, FALSE)
               /\ prev' = Summary(last)
               /\ boot' = "running"
               /\ IF Falsy(out.ret)
                  THEN /\ pc' = "idle"
                       /\ req' = [trace |-> seen, tok |-> out.ret, result |-> "fail"]
                  ELSE /\ pc' = "data1"
                       /\ req' = [trace |-> seen, tok |-> out.ret, result |-> "pending"]
    /\ UNCHANGED <<now, haveCreds>>
    /\ UNCHANGED storeVars

\* a first data call that invalidates on every failure
ReqData1_ClearOnFailure ==
    /\ pc = "data1"
    /\ \E resp \in DataResponses :
           LET trace == Append(req.trace, Event("data", req.tok, resp.status))
           IN  IF resp.status = 200
               THEN /\ pc' = "idle"
                    /\ req' = [req EXCEPT !.trace = trace,
                                          !.result = IF resp.json THEN "ok" ELSE "fail"]
               ELSE /\ pc' = "clear"
                    /\ req' = [req EXCEPT !.trace = trace]
    /\ UNCHANGED <<now, haveCreds, tgt, expiry_time, cache_file, last, prev, boot>>
    /\ UNCHANGED storeVars

\* lines 62-67 and 88-94: the first data call and its answer
ReqData1 ==
    /\ pc = "data1"
    /\ \E resp \in DataResponses :
           LET trace == Append(req.trace, Event("data", req.tok, resp.status))
           IN  IF resp.status = 200
               THEN /\ pc' = "idle"
                    /\ req' = [req EXCEPT !.trace = trace,
                                          !.result = IF resp.json THEN "ok" ELSE "fail"]
               ELSE IF resp.status = 401
               THEN /\ pc' = "clear"
                    /\ req' = [req EXCEPT !.trace = trace]
               ELSE /\ pc' = "idle"
                    /\ req' = [req EXCEPT !.trace = trace, !.result = "fail"]
    /\ UNCHANGED <<now, haveCreds, tgt, expiry_time, cache_file, last, prev, boot>>
    /\ UNCHANGED storeVars

\* line 71: clear_cache() after the 401
ReqClear ==
    /\ pc = "clear"
    /\ \E removable \in BOOLEAN :
           SetMgr(clear_cache(Cur, removable))
    /\ pc' = "refetch"
    /\ req' = [req EXCEPT !.trace = Append(@, Event("clear", PyNone, 0))]
    /\ UNCHANGED <<now, haveCreds, last, prev, boot>>
    /\ UNCHANGED storeVars

\* lines 74-76 and 85-87: the second get_valid_tgt
ReqRefetch ==
    /\ pc = "refetch"
    /\ \E resp \in AuthResponses, io \in WriteOutcomes :
           LET out == get_valid_tgt(Cur, now, haveCreds, resp, io)
               seen == IF out.posts = 1
                       THEN Append(req.trace, Event("auth", out.ret, 0))
                       ELSE req.trace
           IN  /\ SetMgr(out.m)
               /\ last' = CallRec(now, Cur, out, TRUE)
               /\ prev' = Summary(last)
               /\ IF Falsy(out.ret)
                  THEN /\ pc' = "idle"
                       /\ req' = [req EXCEPT !.trace = seen, !.result = "fail"]
                  ELSE /\ pc' = "data2"
                       /\ req' = [req EXCEPT !.trace = seen, !.tok = out.ret]
    /\ UNCHANGED <<now, haveCreds, boot>>
    /\ UNCHANGED storeVars

\* a retry that starts over when it is rejected again
ReqData2_Again ==
    /\ pc = "data2"
    /\ \E resp \in DataResponses :
           /\ req' = [req EXCEPT !.trace = Append(@, Event("data", req.tok, resp.status)),
                                 !.result = IF resp.status = 200 /\ resp.json THEN "ok"
                                            ELSE IF resp.status = 401 THEN @
                                            ELSE "fail"]
           /\ pc' = IF resp.status = 401 THEN "clear" ELSE "idle"
    /\ UNCHANGED <<now, haveCreds, tgt, expiry_time, cache_file, last, prev, boot>>
    /\ UNCHANGED storeVars

\* lines 77-84: the retry of the data call
ReqData2 ==
    /\ pc = "data2"
    /\ \E resp \in DataResponses :
           req' = [req EXCEPT !.trace = Append(@, Event("data", req.tok, resp.status)),
                              !.result = IF resp.status = 200 /\ resp.json
                                         THEN "ok" ELSE "fail"]
    /\ pc' = "idle"
    /\ UNCHANGED <<now, haveCreds, tgt, expiry_time, cache_file, last, prev, boot>>
    /\ UNCHANGED storeVars

Next ==
    \/ Tick
    \/ Restart
    \/ TgtManagerMain
    \/ ReqBegin
    \/ ReqData1
    \/ ReqClear
    \/ ReqRefetch
    \/ ReqData2

Spec == Init /\ [][Next]_vars

\* what tgt_cache.json may hold when a process starts: nothing, text that
\* json.load rejects, a record whose tgt is empty (cache_data.get('tgt') is
\* falsy), one without expiry_time (cache_data.get returns None), and
\* records with a ticket that expires at 0 and at 57
StartupExpiries == {0, 57}

StartupFiles ==
    {NoFile, Corrupt,
     CacheData(Str(""), Isoformat(Dt(57)), Isoformat(Dt(0))),
     CacheData(Str("TGT-a"), PyNone, Isoformat(Dt(0)))}
    \cup {CacheData(Str("TGT-a"), Isoformat(Dt(e)), Isoformat(Dt(0))) :
              e \in StartupExpiries}

\* no process is running yet and the cache file is what earlier runs left
InitStartup ==
    /\ now = 0
    /\ haveCreds \in BOOLEAN
    /\ tgt = PyNone
    /\ expiry_time = PyNone
    /\ cache_file \in StartupFiles
    /\ pc = "exited"
    /\ req = NoReq
    /\ last = NoCall
    /\ prev = NoCall
    /\ boot = "loaded"
    /\ table = "epias_power_consumption"
    /\ power_data = <<>>
    /\ carbon_intensity = <<>>
    /\ epias_power_consumption = <<>>
    /\ call = NoUpsert
    /\ prior = NoUpsert
    /\ writer = NoWriter

SpecStartup == InitStartup /\ [][Next]_vars

----------------------------------------------------------------------------
(* The pipelines' writes *)

\* the records of a call at which the store may stop answering (0: none)
Downs(df, outage) == IF outage THEN 0..Len(df) ELSE {0}

\* etl_energy_data / pull-data-EMAPS: repository.save_power_data(power_df)
\* with a store that answers throughout, or one that may stop answering
SavePowerDataWith(outage) ==
    /\ table = "power_data"
    /\ \E power_df \in PowerFrames : \E down \in Downs(power_df, outage) :
         LET out == save_power_data(power_data, power_df, down)
         IN  /\ Len(out.store) <= MaxRows
             /\ power_data' = out.store
             /\ call' = UpsertCall(power_df, out)
             /\ prior' = Prior(call, power_df)
    /\ UNCHANGED <<table, carbon_intensity, epias_power_consumption, writer>>
    /\ UNCHANGED tgtVars

\* etl_energy_data / pull-data-EMAPS: repository.save_carbon_data(carbon_df)
\* with a store that answers throughout, or one that may stop answering
SaveCarbonDataWith(outage) ==
    /\ table = "carbon_intensity"
    /\ \E carbon_df \in CarbonFrames : \E down \in Downs(carbon_df, outage) :
         LET out == save_carbon_data(carbon_intensity, carbon_df, down)
         IN  /\ Len(out.store) <= MaxRows
             /\ carbon_intensity' = out.store
             /\ call' = UpsertCall(carbon_df, out)
             /\ prior' = Prior(call, carbon_df)
    /\ UNCHANGED <<table, power_data, epias_power_consumption, writer>>
    /\ UNCHANGED tgtVars

\* save_consumption_to_database: repo.save_consumption_data(df)
\* with a store that answers throughout, or one that may stop answering
SaveConsumptionDataWith(outage) ==
    /\ table = "epias_power_consumption"
    /\ \E consumption_df \in ConsumptionFrames : \E down \in Downs(consumption_df, outage) :
         LET out == save_consumption_data(epias_power_consumption, consumption_df, down)
         IN  /\ Len(out.store) <= MaxRows
             /\ epias_power_consumption' = out.store
             /\ call' = UpsertCall(consumption_df, out)
             /\ prior' = Prior(call, consumption_df)
    /\ UNCHANGED <<table, power_data, carbon_intensity, writer>>
    /\ UNCHANGED tgtVars

SavePowerData == SavePowerDataWith(FALSE)

SaveCarbonData == SaveCarbonDataWith(FALSE)

SaveConsumptionData == SaveConsumptionDataWith(FALSE)

InitUpsert ==
    /\ now = 0
    /\ haveCreds = TRUE
    /\ tgt = PyNone
    /\ expiry_time = PyNone
    /\ cache_file = NoFile
    /\ pc = "idle"
    /\ req = NoReq
    /\ last = NoCall
    /\ prev = NoCall
    /\ boot = "loaded"
    /\ table \in {"power_data", "carbon_intensity", "epias_power_consumption"}
    /\ power_data = <<>>
    /\ carbon_intensity = <<>>
    /\ epias_power_consumption = <<>>
    /\ call = NoUpsert
    /\ prior = NoUpsert
    /\ writer = NoWriter

NextUpsert ==
    \/ SavePowerData
    \/ SaveCarbonData
    \/ SaveConsumptionData

SpecUpsert == InitUpsert /\ [][NextUpsert]_vars

----------------------------------------------------------------------------
(* The same calls against a store that may stop answering in mid-call *)

SavePowerDataOutage == SavePowerDataWith(TRUE)

SaveCarbonDataOutage == SaveCarbonDataWith(TRUE)

SaveConsumptionDataOutage == SaveConsumptionDataWith(TRUE)

NextOutage ==
    \/ SavePowerDataOutage
    \/ SaveCarbonDataOutage
    \/ SaveConsumptionDataOutage

SpecOutage == InitUpsert /\ [][NextOutage]_vars

----------------------------------------------------------------------------
(* The calls on records whose datetime strings carry a UTC offset *)

\* pd.to_datetime keeps the offset a datetime string is written with: the
\* same hour as "00:00Z" and as "01:00+01:00", and the hour after it
PowerRowsZoned ==
    [datetime : {TS(0, 0), TS(1, 1), TS(1, 0)}, zone : {Str("TR")},
     powerConsumptionTotal : {Num(1)}]

\* load_all_transformed_data_to_database: repo.save_power_data(power_df)
SavePowerDataZoned ==
    /\ table = "power_data"
    /\ \E power_df \in Frames(PowerRowsZoned) :
         LET out == save_power_data(power_data, power_df, 0)
         IN  /\ Len(out.store) <= MaxRows
             /\ power_data' = out.store
             /\ call' = UpsertCall(power_df, out)
             /\ prior' = Prior(call, power_df)
    /\ UNCHANGED <<table, carbon_intensity, epias_power_consumption, writer>>
    /\ UNCHANGED tgtVars

InitNotation ==
    /\ InitUpsert
    /\ table \in {"power_data", "epias_power_consumption"}

NextNotation ==
    \/ SavePowerDataZoned
    \/ SaveConsumptionData

SpecNotation == InitNotation /\ [][NextNotation]_vars

----------------------------------------------------------------------------
(* save_power_data next to another process writing the same collection     *)
(* (the scheduler's pipeline and a run of pull-data-EMAPS.py): the call is *)
(* taken one store operation at a time                                     *)

WriterAt(df, i, existing_record, acc) ==
    [pc |-> IF i > Len(df) THEN "done" ELSE "find", df |-> df, i |-> i,
     existing_record |-> existing_record, acc |-> acc]

\* lines 11-17: the call begins
WriterBegin ==
    /\ table = "power_data"
    /\ writer.pc \in {"idle", "done"}
    /\ \E power_df \in PowerFrames :
           writer' = WriterAt(power_df, 1, <<>>, Outcome(<<>>, "ok", 0, 0, 0))
    /\ UNCHANGED <<table, power_data, carbon_intensity, epias_power_consumption,
                   call, prior>>
    /\ UNCHANGED tgtVars

\* lines 19-44: the key of the next record and the find_one for it
WriterFind ==
    /\ writer.pc = "find"
    /\ LET row == writer.df[writer.i]
       IN  IF row["datetime"] = NaT
           THEN writer' = [writer EXCEPT !.pc = "done", !.acc.status = "raised"]
           ELSE writer' = [writer EXCEPT
                               !.pc = "write",
                               !.existing_record = Found(power_data, FilterQuery(row))]
    /\ UNCHANGED <<table, power_data, carbon_intensity, epias_power_consumption,
                   call, prior>>
    /\ UNCHANGED tgtVars

\* lines 46-65: the comparison and the replace_one or insert_one
WriterWrite ==
    /\ writer.pc = "write"
    /\ LET row == writer.df[writer.i]
           out == ReconcileFound([writer.acc EXCEPT !.store = power_data],
                                 writer.existing_record, FilterQuery(row),
                                 PowerRowDict(row))
       IN  /\ Len(out.store) <= MaxRows
           /\ power_data' = out.store
           /\ writer' = WriterAt(writer.df, writer.i + 1, <<>>,
                                 [out EXCEPT !.store = <<>>])
    /\ UNCHANGED <<table, carbon_intensity, epias_power_consumption, call, prior>>
    /\ UNCHANGED tgtVars

\* one store operation of the other process: the insert_one or replace_one
\* of one of its records
OtherWriter ==
    /\ table = "power_data"
    /\ \E row \in PowerRows \cup PowerRowsWide :
           /\ HasIdentity(row)
           /\ \/ power_data' = insert_one(power_data, PowerRowDict(row))
              \/ /\ find_one(power_data, FilterQuery(row)) # 0
                 /\ power_data' = replace_one(power_data, FilterQuery(row),
                                              PowerRowDict(row)).coll
    /\ Len(power_data') <= MaxRows
    /\ UNCHANGED <<table, carbon_intensity, epias_power_consumption, call, prior,
                   writer>>
    /\ UNCHANGED tgtVars

InitWriters ==
    /\ InitUpsert
    /\ table = "power_data"

NextWriters ==
    \/ WriterBegin
    \/ WriterFind
    \/ WriterWrite
    \/ OtherWriter

SpecWriters == InitWriters /\ [][NextWriters]_vars

----------------------------------------------------------------------------
(* Two processes running save_consumption_data on one table, each taken   *)
(* one statement at a time (autocommit: a statement is a transaction)     *)

PgWriters == {"A", "B"}

\* the tables the two calls may find: empty, or one row left by an earlier
\* call
PgTables ==
    {<<>>} \cup
    {<<[id |-> 1, datetime |-> d, consumption_mwh |-> v, created_at |-> 0,
        updated_at |-> 0]>> : d \in {0, 1}, v \in {Num(1), NaN}}

\* a call at its i-th record; created counts the statements of the call
\* after which the table had one more row
PgWriterAt(df, i, acc, created) ==
    [pc |-> IF i > Len(df) \/ acc.status # "ok" THEN "done" ELSE "run",
     df |-> df, i |-> i, acc |-> acc, created |-> created]

\* lines 44-65: the call begins; an empty frame returns False at once
PgBegin(w) ==
    /\ writer[w].pc = "idle"
    /\ \E consumption_df \in ConsumptionFrames :
           writer' = [writer EXCEPT ![w] =
               PgWriterAt(consumption_df, 1,
                          Outcome(<<>>, IF consumption_df = <<>> THEN "false" ELSE "ok",
                                  0, 0, 0), 0)]
    /\ UNCHANGED <<table, power_data, carbon_intensity, epias_power_consumption,
                   call, prior>>
    /\ UNCHANGED tgtVars

\* lines 67-113: one record of the call: its statement runs against the
\* table as the other call's statements have left it
PgStatement(w) ==
    /\ writer[w].pc = "run"
    /\ LET me == writer[w]
           out == ConsumptionLoop([me.acc EXCEPT !.store = Earlier(epias_power_consumption)],
                                  <<me.df[me.i]>>, 1, 0)
       IN  /\ Len(out.store) <= MaxRows
           /\ epias_power_consumption' = out.store
           /\ writer' = [writer EXCEPT ![w] =
                   PgWriterAt(me.df, me.i + 1, [out EXCEPT !.store = <<>>],
                              IF Len(out.store) > Len(epias_power_consumption)
                              THEN me.created + 1 ELSE me.created)]
    /\ UNCHANGED <<table, power_data, carbon_intensity, call, prior>>
    /\ UNCHANGED tgtVars

InitPgWriters ==
    /\ now = 0
    /\ haveCreds = TRUE
    /\ tgt = PyNone
    /\ expiry_time = PyNone
    /\ cache_file = NoFile
    /\ pc = "idle"
    /\ req = NoReq
    /\ last = NoCall
    /\ prev = NoCall
    /\ boot = "loaded"
    /\ table = "epias_power_consumption"
    /\ power_data = <<>>
    /\ carbon_intensity = <<>>
    /\ epias_power_consumption \in PgTables
    /\ call = NoUpsert
    /\ prior = NoUpsert
    /\ writer = [w \in PgWriters |-> NoWriter]

NextPgWriters ==
    \/ \E w \in PgWriters : PgBegin(w)
    \/ \E w \in PgWriters : PgStatement(w)

SpecPgWriters == InitPgWriters /\ [][NextPgWriters]_vars


----------------------------------------------------------------------------
(* Helpers of the properties *)

\* the positions of the events of one kind in the trace of the request
Positions(kind) == {i \in 1..Len(req.trace) : req.trace[i].ev = kind}

Count(kind) == Cardinality(Positions(kind))

\* the kinds of the events after position i
KindsAfter(i) == [j \in 1..(Len(req.trace) - i) |-> req.trace[i + j].ev]

\* the first data call was answered 401
FirstRejected ==
    /\ Positions("data") # {}
    /\ LET i == CHOOSE k \in Positions("data") : \A l \in Positions("data") : k <= l
       IN  req.trace[i].status = 401

FirstData == CHOOSE k \in Positions("data") : \A l \in Positions("data") : k <= l

\* the request has returned
Returned == req.result \in {"ok", "fail"}

\* the call made a request that was answered with a ticket
FetchedTicket(c) == c.called /\ c.posts = 1 /\ ~Falsy(c.ret)

\* the call made a request that failed
FetchFailed(c) == c.called /\ c.posts >= 1 /\ c.status \notin {200, 201}

----------------------------------------------------------------------------
(* Credential manager: properties *)

\* the rows of the store that carry the identity under which this record is
\* looked up
RowsFor(row) == {i \in 1..Len(Store) : StoredIdentity(Store[i]) = Identity(row)}

\* what the store keeps of a record
StoredImage(row) ==
    CASE table = "power_data" -> PowerRowDict(row)
      [] table = "carbon_intensity" -> CarbonRowDict(row)
      [] table = "epias_power_consumption" -> row["consumption_mwh"]

\* what a stored row holds
StoredValues(r) ==
    IF table = "epias_power_consumption" THEN r.consumption_mwh ELSE WithoutId(r)

\* C1: idempotence of the upsert counts. When a call has just applied a data
\* frame whose records have pairwise distinct identities and the call before
\* it applied the same frame and completed, the second call reports
\* inserted=0, updated=0 and skipped=|R|.
C1_IdempotentCounts ==
    (/\ call.observed /\ prior.observed
     /\ prior.relation = "same" /\ prior.status = "ok"
     /\ DistinctIdentities(call.df))
    => /\ call.status = "ok"
       /\ call.inserted = 0
       /\ call.updated = 0
       /\ call.skipped = Len(call.df)

\* a second run over a two-record frame with a NaN value has taken place
C1_Witness ==
    /\ call.observed /\ prior.observed
    /\ prior.relation = "same" /\ prior.status = "ok"
    /\ DistinctIdentities(call.df)
    /\ Len(call.df) = 2
    /\ table = "power_data"
    /\ \E i \in 1..2 : call.df[i]["powerConsumptionTotal"] = NaN
    /\ call.skipped = 2

\* C2: uniqueness under conflicting payloads. When one record was applied to
\* a store without its identity (that call reported inserted=1) and the next
\* call applies one record with the same identity and other field values,
\* the store holds exactly one row for the identity, with the second
\* record's values, and the second call reports updated=1.
C2_ConflictingPayloads ==
    (/\ call.observed /\ prior.observed
     /\ Len(call.df) = 1
     /\ prior.relation = "conflict" /\ prior.status = "ok" /\ prior.inserted = 1)
    => /\ Cardinality(RowsFor(call.df[1])) = 1
       /\ \A i \in RowsFor(call.df[1]) : StoredValues(Store[i]) = StoredImage(call.df[1])
       /\ call.status = "ok"
       /\ call.updated = 1
       /\ call.inserted = 0
       /\ call.skipped = 0

\* a consumption record has been replaced by one for the same instant written
\* with another offset and another value
C2_Witness ==
    /\ call.observed /\ prior.observed
    /\ Len(call.df) = 1
    /\ prior.relation = "conflict" /\ prior.status = "ok" /\ prior.inserted = 1
    /\ table = "epias_power_consumption"
    /\ call.df[1]["datetime"] = TS(1, 1)
    /\ call.updated = 1

\* C3: in every state reachable by upsert calls of a single writer from the
\* empty store, no two rows of the store carry the same identity.
C3_OneRowPerIdentity ==
    \A i, j \in 1..Len(Store) :
        i # j => StoredIdentity(Store[i]) # StoredIdentity(Store[j])

\* a call has met a stored identity again while the store holds two rows, one
\* of them without a zone
C3_Witness ==
    /\ table = "carbon_intensity"
    /\ Len(carbon_intensity) = 2
    /\ \E i \in 1..2 : carbon_intensity[i]["zone"] = PyNone
    /\ call.observed /\ call.updated + call.skipped >= 1


\* C4: two consecutive get_valid_tgt calls of one manager, the first of which
\* fetched a ticket (and so computed the expiry at + Lifetime), the second
\* made before that expiry with no clear_cache in between, make exactly one
\* request in total and return the same token.
C4_CredentialReuse ==
    (/\ FetchedTicket(prev)
     /\ last.called
     /\ ~last.afterClear
     /\ last.at < prev.at + Lifetime)
    => (prev.posts + last.posts = 1 /\ last.ret = prev.ret)

C6_BoundedRetry ==
    (Returned /\ FirstRejected) =>
        LET after == KindsAfter(FirstData)
        IN  /\ Len(after) >= 2
            /\ after[1] = "clear"
            /\ after[2] = "auth"
            /\ IF Falsy(req.trace[FirstData + 2].tok)
               THEN Len(after) = 2 /\ req.result = "fail"
               ELSE /\ Len(after) = 3
                    /\ after[3] = "data"
                    /\ (req.trace[FirstData + 3].status # 200 => req.result = "fail")

\* C7: one request makes at most two data calls, at most one clear_cache and
\* at most one authentication request after the clear_cache.
C7_RequestBounds ==
    /\ Count("data") <= 2
    /\ Count("clear") <= 1
    /\ \A i \in Positions("clear") :
           Cardinality({j \in Positions("auth") : j > i}) <= 1

\* C7 witness: a request that was rejected twice has returned failure after
\* two data calls, one clear_cache and one authentication request after it.
C7_Witness ==
    /\ Returned
    /\ req.result = "fail"
    /\ Count("data") = 2
    /\ Count("clear") = 1
    /\ \A i \in Positions("data") : req.trace[i].status = 401
    /\ \E i \in Positions("clear") : \E j \in Positions("auth") : j > i

\* C8: when get_valid_tgt returns a token it fetched, the manager is Valid
\* with that token, the expiry is the time of saving plus Lifetime, and the
\* cache file holds the token with its issue and expiry times.
C8_FetchLeavesValid ==
    FetchedTicket(last) =>
        /\ last.ret = last.post.tgt
        /\ is_tgt_valid(last.post, last.at)
        /\ get_tgt_status(last.post, last.at).valid
        /\ last.post.expiry_time = Dt(last.at + Lifetime)
        /\ last.post.cache_file =
               CacheData(last.ret, Isoformat(Dt(last.at + Lifetime)),
                         Isoformat(Dt(last.at)))

\* C9: a failed request to the authentication endpoint makes get_valid_tgt
\* return None after that single request and leaves the in-memory credential
\* and the cache file as they were before the call.
C9_FetchFailureLeavesState ==
    FetchFailed(last) =>
        /\ last.ret = PyNone
        /\ last.posts = 1
        /\ last.post = last.pre

\* C9 witness: the refresh of an expired ticket has failed, and the expired
\* ticket is still in memory and in the cache file.
C9_Witness ==
    /\ FetchFailed(last)
    /\ ~Falsy(last.pre.tgt)
    /\ HasJson(last.pre.cache_file)
    /\ last.at >= last.pre.expiry_time.dt
    /\ Cur = last.pre

\* C10: after clear_cache has returned, whether or not the file could be
\* removed, token and expiry are empty and the cache file is absent, and the
\* get_valid_tgt call that follows makes a request.
C10_ClearIsUnconditional ==
    /\ (pc = "refetch" =>
            tgt = PyNone /\ expiry_time = PyNone /\ cache_file = NoFile)
    /\ ((last.called /\ last.afterClear) => last.posts = 1)

\* the cache file holds a credential whose expiry is later than t
FileValid(f, t) ==
    /\ HasJson(f)
    /\ ~Falsy(f.tgt) /\ ~Falsy(f.expiry_time)
    /\ t < FromIsoformat(f.expiry_time).dt

\* a constructed manager that read such a file, and was not yet asked for a
\* ticket, is Valid with the file's token and expiry and has made no request
StartsValid ==
    (boot = "loaded" /\ pc = "idle" /\ FileValid(cache_file, now)) =>
        /\ tgt = cache_file.tgt
        /\ expiry_time = FromIsoformat(cache_file.expiry_time)
        /\ get_tgt_status(Cur, now).valid
        /\ req.trace = <<>>

\* C11: a manager constructed over a readable cache file holding a
\* credential that has not expired starts Valid with that token and expiry,
\* construction makes no request, and the first get_valid_tgt before the
\* expiry returns the persisted token without a request.
C11_DurableCache ==
    [][/\ StartsValid'
       /\ (boot = "loaded" /\ boot' = "running" /\ FileValid(cache_file, now)) =>
              /\ last'.posts = 0
              /\ last'.ret = cache_file.tgt
              /\ cache_file' = cache_file
       /\ (boot' = "loaded" /\ pc' = "exited"
           /\ FileValid(last'.pre.cache_file, last'.at)) =>
              /\ last'.pre.tgt = last'.pre.cache_file.tgt
              /\ last'.posts = 0
              /\ last'.ret = last'.pre.cache_file.tgt]_vars

\* the first call of a newly constructed manager has returned the ticket an
\* earlier process had saved, without a request
C11_Witness ==
    /\ boot = "running" /\ pc = "data1"
    /\ last.called /\ ~prev.called
    /\ last.posts = 0
    /\ ~Falsy(last.ret)
    /\ FileValid(last.pre.cache_file, last.at)
    /\ last.pre.cache_file.tgt = last.ret
    /\ last.at > 0

\* the request is at its clear_cache, right after a data call answered 401
AfterRejection ==
    /\ pc = "clear"
    /\ req.trace # <<>>
    /\ req.trace[Len(req.trace)].ev = "data"
    /\ req.trace[Len(req.trace)].status = 401

\* C12: every clear_cache of a request comes right after a data call of that
\* request answered 401, and within one process the token is dropped or the
\* cache file removed only by such a clear_cache: never because the clock
\* passed the expiry time, never after a data call that failed otherwise.
C12_InvalidateOnlyOnRejection ==
    [][/\ \A i \in 1..Len(req'.trace) :
              req'.trace[i].ev = "clear" =>
                  /\ i > 1
                  /\ req'.trace[i - 1].ev = "data"
                  /\ req'.trace[i - 1].status = 401
       /\ (cache_file # NoFile /\ cache_file' = NoFile) => AfterRejection
       /\ (~Restart /\ ~TgtManagerMain /\ tgt # PyNone /\ tgt' = PyNone)
              => AfterRejection]_vars

\* a clear_cache after a rejection has removed a ticket that had not expired
C12_Witness ==
    /\ pc = "refetch"
    /\ Count("clear") = 1
    /\ tgt = PyNone /\ cache_file = NoFile
    /\ HasJson(last.post.cache_file)
    /\ now < last.post.expiry_time.dt

\* the records the pipeline of this table can hand over
Rows ==
    CASE table = "power_data" -> PowerRows \cup PowerRowsWide
      [] table = "carbon_intensity" -> CarbonRows
      [] table = "epias_power_consumption" -> ConsumptionRows

\* the reconciliation of one record, the i-th of its call
Reconcile(acc, row, i) ==
    CASE table = "power_data" ->
             UpsertDocument(acc, FilterQuery(row), PowerRowDict(row))
      [] table = "carbon_intensity" ->
             UpsertDocument(acc, FilterQuery(row), CarbonRowDict(row))
      [] table = "epias_power_consumption" -> UpsertRow(acc, row, i)

\* the store as a call finds it (stored times are relative to the call)
AsFound(store) ==
    IF table = "epias_power_consumption" THEN Earlier(store) ELSE store

\* a field of a document after null normalisation: a missing field, None
\* and NaN are one null
Normalized(d, k) ==
    IF k \in DOMAIN d /\ ~IsNa(d[k]) THEN d[k] ELSE PyNone

\* the stored row is data-equal to the record: every data field matches
\* after null normalisation
DataEqual(r, row) ==
    IF table = "epias_power_consumption"
    THEN \/ StoredValues(r) = StoredImage(row)
         \/ IsNa(StoredValues(r)) /\ IsNa(StoredImage(row))
    ELSE \A k \in DOMAIN StoredValues(r) \cup DOMAIN StoredImage(row) :
             Normalized(StoredValues(r), k) = Normalized(StoredImage(row), k)

\* C13: a record whose identity has a stored row that is data-equal to it is
\* counted as skipped and nothing is written: the row, with its id and its
\* creation and update times, and every other row stay as they are. A call
\* that skipped all its records leaves the whole store as it found it.
C13_SkipWritesNothing ==
    [][/\ \A row \in Rows :
              (/\ HasIdentity(row)
               /\ \E i \in 1..Len(Store') :
                      /\ StoredIdentity(Store'[i]) = Identity(row)
                      /\ DataEqual(Store'[i], row))
              => Reconcile(Outcome(Store', "ok", 0, 0, 0), row, 1)
                     = Outcome(Store', "ok", 0, 0, 1)
       /\ (call'.status = "ok" /\ call'.df # <<>>
           /\ call'.skipped = Len(call'.df))
              => Store' = AsFound(Store)]_vars

\* the storage fields a replacement keeps: the document's _id; the row's id
\* and creation time
Kept(r) ==
    IF table = "epias_power_consumption"
    THEN [id |-> r.id, created_at |-> r.created_at]
    ELSE [id |-> r["_id"]]

\* reconciling any record against a stored row of its identity that is not
\* data-equal to it puts exactly the record's fields and values in that row,
\* leaves the other rows alone and counts one update
FullyReplaces ==
    \A row \in Rows : \A i \in 1..Len(Store) :
        (/\ HasIdentity(row)
         /\ StoredIdentity(Store[i]) = Identity(row)
         /\ ~DataEqual(Store[i], row))
        => LET out == Reconcile(Outcome(Store, "ok", 0, 0, 0), row, 1)
           IN  /\ Len(out.store) = Len(Store)
               /\ StoredValues(out.store[i]) = StoredImage(row)
               /\ Kept(out.store[i]) = Kept(Store[i])
               /\ \A j \in 1..Len(Store) : j # i => out.store[j] = Store[j]
               /\ out.updated = 1 /\ out.inserted = 0 /\ out.skipped = 0

\* C14: a record that meets a stored row of its identity that is not
\* data-equal replaces it whole: the row's data fields are then exactly the
\* record's fields and values, a field only the old row had is gone, and
\* nothing is merged.
C14_FullReplacement ==
    /\ FullyReplaces
    /\ (/\ call.observed /\ call.status = "ok"
        /\ Len(call.df) = 1 /\ call.updated = 1)
       => /\ RowsFor(call.df[1]) # {}
          /\ \A i \in RowsFor(call.df[1]) :
                 StoredValues(Store[i]) = StoredImage(call.df[1])

\* a record without the production column has replaced a stored document
\* that had it, and the document no longer has the field
C14_Witness ==
    /\ table = "power_data"
    /\ call.observed /\ call.status = "ok"
    /\ Len(call.df) = 1 /\ call.updated = 1
    /\ "production_wind" \notin DOMAIN call.df[1]
    /\ prior.observed /\ prior.relation = "conflict" /\ prior.status = "ok"
    /\ prior.inserted = 1
    /\ "production_wind" \in DOMAIN prior.df[1]
    /\ Len(power_data) = 1
    /\ "production_wind" \notin DOMAIN power_data[1]

\* C15: a record that differs from the stored row is counted as updated when
\* the backend reports a change and as skipped when it reports none, so a
\* completed call has inserted + updated + skipped equal to the number of
\* its records.
C15_CountsAddUp ==
    (writer.pc = "done" /\ writer.acc.status = "ok") =>
        writer.acc.inserted + writer.acc.updated + writer.acc.skipped
            = Len(writer.df)

\* C16: a stored row in which a field is missing and a record of the same
\* identity in which that field is null or NaN, or the other way round, are
\* data-equal: the record is counted as skipped and nothing is written.
C16_NullNormalization ==
    \A row \in Rows : \A i \in 1..Len(Store) :
        (/\ table # "epias_power_consumption"
         /\ HasIdentity(row)
         /\ StoredIdentity(Store[i]) = Identity(row)
         /\ DOMAIN StoredValues(Store[i]) # DOMAIN StoredImage(row)
         /\ DataEqual(Store[i], row))
        => Reconcile(Outcome(Store, "ok", 0, 0, 0), row, 1)
               = Outcome(Store, "ok", 0, 0, 1)

\* the record has the fields its identity is computed from: a datetime and,
\* for power and carbon data, a zone
WellFormed(row) ==
    /\ row["datetime"] # NaT
    /\ table # "epias_power_consumption" => row["zone"] # PyNone

\* C17: a record that lacks a field of its identity is left out of the batch
\* and the batch goes on: the call completes, every other record of the
\* batch, before and after it, has been reconciled and counted, and nothing
\* is stored for the record left out.
C17_BestEffortBatch ==
    (call.observed /\ call.df # <<>>) =>
        /\ call.status = "ok"
        /\ \A i \in 1..Len(call.df) :
               WellFormed(call.df[i]) => RowsFor(call.df[i]) # {}
        /\ call.inserted + call.updated + call.skipped
               = Cardinality({i \in 1..Len(call.df) : WellFormed(call.df[i])})

\* the call of this step, run on the records before position i only, with
\* the store answering throughout
Before(df, i) ==
    CASE table = "power_data" -> save_power_data(Store, SubSeq(df, 1, i - 1), 0)
      [] table = "carbon_intensity" ->
             save_carbon_data(Store, SubSeq(df, 1, i - 1), 0)
      [] table = "epias_power_consumption" ->
             ConsumptionLoop(Outcome(Earlier(Store), "ok", 0, 0, 0),
                             SubSeq(df, 1, i - 1), 1, 0)

\* C18: when a store operation fails at the i-th record of a batch, the
\* failure reaches the caller (an exception, or the return value False),
\* the records before i have their rows in the store, and the store is what
\* those records alone made of it: no later record was written.
C18_StoreFailureMidBatch ==
    [][(call'.observed /\ call'.failed > 0) =>
           /\ call'.status \in {"raised", "false"}
           /\ \A j \in 1..(call'.failed - 1) :
                  \E k \in 1..Len(Store') :
                      StoredIdentity(Store'[k]) = Identity(call'.df[j])
           /\ Store' = Before(call'.df, call'.failed).store
           /\ call'.inserted + call'.updated + call'.skipped = call'.failed - 1
      ]_vars

\* the store failed at the second record of a call whose first record had
\* been inserted, and the row of the first record is in the store
C18_Witness ==
    /\ call.observed /\ call.failed = 2
    /\ call.inserted = 1
    /\ Len(Store) = 1
    /\ StoredIdentity(Store[1]) = Identity(call.df[1])

\* the manager would treat the credential of m as valid at time t: it holds
\* it in memory and is_tgt_valid accepts it, or a new process would adopt it
\* from the cache file
TreatedValid(m, t) ==
    \/ is_tgt_valid(m, t)
    \/ is_tgt_valid(load_cached_tgt(Mgr(PyNone, PyNone, m.cache_file), t, TRUE), t)

\* C19: a credential the manager saves gets the expiry "time of saving plus
\* 115 minutes", in memory and in the cache file, so at no time 2 hours or
\* more after the authority issued it is it treated as valid, by this process
\* or by one started later; a call that returns the cached credential does so
\* less than 2 hours after the credential was written.
C19_SafetyMargin ==
    /\ (/\ last.called /\ last.posts = 1
        /\ last.status \in {200, 201}
        /\ last.post # last.pre)
       => \/ /\ last.post.tgt = last.pre.tgt
             /\ last.post.expiry_time = last.pre.expiry_time
             /\ last.post.cache_file = Corrupt
          \/ /\ last.post.tgt = last.ret
             /\ last.post.expiry_time = Dt(last.at + 115)
             /\ last.post.cache_file
                    = CacheData(last.ret, Isoformat(Dt(last.at + 115)),
                                Isoformat(Dt(last.at)))
             /\ \A t \in last.at..(last.at + 2 * AuthorityHours * 60) :
                    TreatedValid(last.post, t) => t < last.at + AuthorityHours * 60
    /\ (/\ last.called /\ last.posts = 0 /\ last.ret # PyNone
        /\ HasJson(last.pre.cache_file))
       => last.at < FromIsoformat(last.pre.cache_file.created_at).dt
                        + AuthorityHours * 60

\* a credential fetched and saved by one call has been returned from the
\* cache by a call 114 minutes later
C19_Witness ==
    /\ last.called /\ last.posts = 0 /\ last.ret # PyNone
    /\ prev.called /\ prev.posts = 1 /\ prev.ret = last.ret
    /\ last.at = prev.at + 114
    /\ HasJson(last.pre.cache_file)
    /\ last.pre.cache_file.created_at = Isoformat(Dt(prev.at))

\* the cache file holds the credential of m
FileAgrees(m) ==
    /\ HasJson(m.cache_file)
    /\ m.cache_file.tgt = m.tgt
    /\ m.cache_file.expiry_time = Isoformat(m.expiry_time)

\* C20: one credential is cached and its two copies agree: whenever the
\* manager is Valid the cache file holds the same token and the same expiry
\* time; a fetch that obtained a token leaves that token in memory and in the
\* file; and a call that follows it and answers from the cache returns that
\* token, never an older one.
C20_OneCredentialCached ==
    /\ is_tgt_valid(Cur, now) => FileAgrees(Cur)
    /\ FetchedTicket(last) =>
           /\ last.post.tgt = last.ret
           /\ FileAgrees(last.post)
    /\ (/\ last.called /\ last.posts = 0 /\ last.ret # PyNone
        /\ FetchedTicket(prev))
       => last.ret = prev.ret

\* what one reconciliation did, read from the counters before and after it
Kind(acc, out) ==
    IF out.inserted > acc.inserted THEN "inserted"
    ELSE IF out.updated > acc.updated THEN "updated"
    ELSE IF out.skipped > acc.skipped THEN "skipped"
    ELSE "none"

\* what the call does with each record of df from position i on
RECURSIVE ActsFrom(_, _, _)
ActsFrom(acc, df, i) ==
    IF i > Len(df) THEN <<>>
    ELSE <<Kind(acc, Reconcile(acc, df[i], i))>>
             \o ActsFrom(Reconcile(acc, df[i], i), df, i + 1)

\* what the call of this step did with each of its records
Acts == ActsFrom(Outcome(AsFound(Store), "ok", 0, 0, 0), call'.df, 1)

\* C21: within one completed call no identity is both inserted and
\* replaced, also when the batch carries the same identity several times.
C21_InsertOrReplace ==
    [][(call'.observed /\ call'.status = "ok") =>
           \A i, j \in 1..Len(call'.df) :
               (i < j /\ Identity(call'.df[i]) = Identity(call'.df[j]))
               => ~(Acts[i] = "inserted" /\ Acts[j] = "updated")]_vars

\* the position of the last record of df that has the identity of df[i]
LastOf(df, i) ==
    CHOOSE j \in i..Len(df) :
        /\ Identity(df[j]) = Identity(df[i])
        /\ \A k \in (j + 1)..Len(df) : Identity(df[k]) # Identity(df[i])

\* C22: after a completed call, every identity that occurs in the batch has
\* exactly one row in the store, and the row's data fields are those of the
\* last record of the batch with that identity.
C22_LastRecordWins ==
    (call.observed /\ call.status = "ok") =>
        \A i \in 1..Len(call.df) :
            /\ Cardinality(RowsFor(call.df[i])) = 1
            /\ \A r \in RowsFor(call.df[i]) :
                   StoredValues(Store[r]) = StoredImage(call.df[LastOf(call.df, i)])

\* a completed call had two records of one instant with different values,
\* inserted the first and replaced it by the second
C22_Witness ==
    /\ table = "epias_power_consumption"
    /\ call.observed /\ call.status = "ok"
    /\ Len(call.df) = 2
    /\ Identity(call.df[1]) = Identity(call.df[2])
    /\ call.df[1]["consumption_mwh"] # call.df[2]["consumption_mwh"]
    /\ call.inserted = 1 /\ call.updated = 1
    /\ Len(epias_power_consumption) = 1
    /\ epias_power_consumption[1].consumption_mwh = call.df[2]["consumption_mwh"]

\* the upsert call of the table on a data frame
Save(store, df) ==
    CASE table = "power_data" -> save_power_data(store, df, 0)
      [] table = "carbon_intensity" -> save_carbon_data(store, df, 0)
      [] table = "epias_power_consumption" -> save_consumption_data(store, df, 0)

\* the rows of a store without what the storage adds to them (the _id, the
\* serial id, the creation and update times, the position)
Data(store) ==
    {[identity |-> StoredIdentity(store[i]), values |-> StoredValues(store[i])] :
         i \in 1..Len(store)}

\* the data frames with the records of df in another order
Reorderings(df) ==
    {[i \in 1..Len(df) |-> df[p[i]]] :
         p \in {q \in [1..Len(df) -> 1..Len(df)] :
                    \A i, j \in 1..Len(df) : i # j => q[i] # q[j]}}

\* C23: for a batch with pairwise distinct identities, the call applied to
\* any permutation of the batch ends with the same rows in the store and
\* reports the same inserted, updated and skipped counts.
C23_OrderIndependence ==
    [][(call'.observed /\ DistinctIdentities(call'.df)) =>
           \A df \in Reorderings(call'.df) :
               LET out == Save(Store, df)
               IN  /\ Data(out.store) = Data(Store')
                   /\ out.status = call'.status
                   /\ out.inserted = call'.inserted
                   /\ out.updated = call'.updated
                   /\ out.skipped = call'.skipped]_vars

\* a call has applied two records of different identities, one inserted and
\* one that replaced a stored row
C23_Witness ==
    /\ call.observed /\ call.status = "ok"
    /\ Len(call.df) = 2
    /\ DistinctIdentities(call.df)
    /\ call.inserted = 1 /\ call.updated = 1
    /\ Len(Store) = 2

\* the timestamps of the records of the table
Timestamps ==
    {row["datetime"] :
         row \in {r \in PowerRowsZoned \cup ConsumptionRows : r["datetime"] # NaT}}

\* the key the call derives from a record's datetime: the strftime string,
\* or the instant PostgreSQL reads from the isoformat string
Key(ts) ==
    IF table = "epias_power_consumption" THEN ParseTimestamptz(TsIsoformat(ts))
    ELSE Strftime(ts)

\* C24: the key derived from a record's datetime is the same for two
\* timestamps exactly when they denote the same instant, whatever offset
\* they are written with; a record that comes again with its instant in
\* another notation is counted as skipped and adds no row.
C24_TimestampCanonicalization ==
    [][/\ \A a, b \in Timestamps : (Instant(a) = Instant(b)) <=> (Key(a) = Key(b))
       /\ (/\ call.observed /\ call.status = "ok" /\ Len(call.df) = 1
           /\ call'.observed /\ Len(call'.df) = 1
           /\ HasIdentity(call.df[1]) /\ HasIdentity(call'.df[1])
           /\ Instant(call.df[1]["datetime"]) = Instant(call'.df[1]["datetime"])
           /\ Payload(call.df[1]) = Payload(call'.df[1]))
          => /\ call'.skipped = 1
             /\ Len(Store') = Len(Store)]_vars

\* the first data call failed otherwise than by a rejection: a status other
\* than 200 and 401, or no response (requests.post raised)
FirstFailedOtherwise ==
    /\ Positions("data") # {}
    /\ req.trace[FirstData].status \notin {200, 401}

\* C25: a first data call that fails otherwise than by a 401 ends the
\* request with failure after that single attempt: no clear_cache, no
\* request to the authentication endpoint and no retry follow it, the step
\* leaves the credential in memory and in the cache file as they were, and
\* the manager still holds, valid, the token the request was given.
C25_OtherFailureEndsRequest ==
    [][(pc = "data1" /\ pc' # "data1" /\ FirstFailedOtherwise') =>
           /\ pc' = "idle"
           /\ req'.result = "fail"
           /\ Len(req'.trace) = Len(req.trace) + 1
           /\ Len(req'.trace) = FirstData'
           /\ \A i \in 1..Len(req'.trace) : req'.trace[i].ev # "clear"
           /\ UNCHANGED <<tgt, expiry_time, cache_file>>
           /\ tgt' = req.tok
           /\ is_tgt_valid(Cur', last.at)]_vars

\* the values the two calls carry for an instant
WrittenFor(k) ==
    UNION {{writer[w].df[i]["consumption_mwh"] :
                i \in {j \in 1..Len(writer[w].df) :
                           /\ j < writer[w].i
                           /\ writer[w].df[j]["datetime"] # NaT
                           /\ Instant(writer[w].df[j]["datetime"]) = k}} :
               w \in PgWriters}

\* C26: under every interleaving of the statements of two
\* save_consumption_data calls, the table never holds two rows for one
\* instant; once both calls have ended, the row of an instant they wrote
\* holds a value one of them wrote for it; and a call counts as inserted
\* exactly the records whose statement created the row.
C26_ConcurrentWriters ==
    /\ \A i, j \in 1..Len(epias_power_consumption) :
           i # j => epias_power_consumption[i].datetime
                        # epias_power_consumption[j].datetime
    /\ \A w \in PgWriters :
           writer[w].pc # "idle" => writer[w].acc.inserted = writer[w].created
    /\ (\A w \in PgWriters : writer[w].pc = "done") =>
           \A k \in {0, 1} :
               WrittenFor(k) # {} =>
                   \E r \in 1..Len(epias_power_consumption) :
                       /\ epias_power_consumption[r].datetime = k
                       /\ epias_power_consumption[r].consumption_mwh \in WrittenFor(k)

\* both calls have ended, each wrote one record for the same instant with
\* another value; one inserted the row and the other replaced its value
C26_Witness ==
    /\ \A w \in PgWriters :
           /\ writer[w].pc = "done" /\ writer[w].acc.status = "ok"
           /\ Len(writer[w].df) = 1
    /\ Instant(writer["A"].df[1]["datetime"]) = Instant(writer["B"].df[1]["datetime"])
    /\ writer["A"].df[1]["consumption_mwh"] # writer["B"].df[1]["consumption_mwh"]
    /\ writer["A"].acc.updated = 1
    /\ writer["B"].acc.inserted = 1
    /\ Len(epias_power_consumption) = 1

\* the data calls of the request, in order
DataCalls == [i \in 1..Count("data") |->
                 req.trace[CHOOSE k \in Positions("data") :
                               Cardinality({l \in Positions("data") : l <= k}) = i]]

\* the retry carries another token than the first data call, or the
\* authentication endpoint answered with that token between the two
RetryTokenFresh ==
    \/ DataCalls[2].tok # DataCalls[1].tok
    \/ \E j \in Positions("auth") :
           j > FirstData /\ req.trace[j].tok = DataCalls[2].tok

\* C27: every data call of a request carries the token the get_valid_tgt
\* call just before it returned; a request whose first get_valid_tgt fails
\* makes no data call, one whose second get_valid_tgt fails makes no retry
\* and returns failure; and the retry carries the rejected token only when
\* the authentication endpoint issued that token again.
C27_TokenCarried ==
    [][/\ (pc \in {"data1", "data2"} /\ pc' # pc) =>
              /\ Len(req'.trace) = Len(req.trace) + 1
              /\ req'.trace[Len(req'.trace)].ev = "data"
              /\ req'.trace[Len(req'.trace)].tok = last.ret
       /\ (/\ pc = "idle" /\ pc' = "idle" /\ now' = now
           /\ last'.called /\ req'.result # "none"
           /\ Falsy(last'.ret)) =>
              /\ req'.result = "fail"
              /\ Count("data")' = 0
       /\ (pc = "refetch" /\ pc' # pc /\ Falsy(last'.ret)) =>
              /\ pc' = "idle"
              /\ req'.result = "fail"
              /\ Count("data")' = 1
       /\ (pc = "data2" /\ pc' # pc) => RetryTokenFresh']_vars

\* the cache file gives a manager constructed at local time t nothing to
\* load: it is absent, open() raises on it, json.load rejects it, it lacks
\* the token or the expiry, or its expiry is not later than t
Unusable(f, t, readable) == ~readable \/ ~FileValid(f, t)

\* the step is the construction of a manager
Constructs ==
    /\ now' = now
    /\ pc \in {"idle", "exited"} /\ pc' = "idle" /\ boot' # "running"

\* the step is the first get_valid_tgt of a constructed manager
FirstCall == now' = now /\ pc = "idle" /\ boot # "running" /\ boot' = "running"

\* the step is a run of the script: construction, then one get_valid_tgt
ScriptRun ==
    /\ now' = now
    /\ pc' = "exited" /\ last'.called /\ ~prev'.called /\ req' = NoReq

\* construction over an unusable cache file leaves the manager Empty and the
\* file as it is, and makes no request
StartsEmpty ==
    /\ (Constructs /\ Unusable(cache_file, now, boot' # "unreadable")) =>
           /\ tgt' = PyNone /\ expiry_time' = PyNone
           /\ get_tgt_status(Cur, now)' = [valid |-> FALSE, expires_at |-> PyNone]
           /\ cache_file' = cache_file
           /\ req'.trace = <<>>
    /\ (ScriptRun /\ Unusable(cache_file, now, boot' # "unreadable")) =>
           /\ last'.pre = Mgr(PyNone, PyNone, cache_file)
           /\ get_tgt_status(last'.pre, now) = [valid |-> FALSE, expires_at |-> PyNone]

\* C28: a manager constructed over a cache file that is absent, unreadable,
\* without token or expiry, or expired starts Empty with the file untouched
\* and no request made, and its first get_valid_tgt makes exactly one
\* request to the authentication endpoint.
C28_UnusableCacheStartup ==
    [][/\ StartsEmpty
       /\ (FirstCall /\ tgt = PyNone) => last'.posts = 1
       /\ (ScriptRun /\ Unusable(cache_file, now, boot' # "unreadable")) =>
              last'.posts = 1]_vars

\* C28, amended: as above, but the first get_valid_tgt makes exactly one
\* request only when EPIAS_USERNAME and EPIAS_PASSWORD are set; without
\* them it makes none and returns None.
C28_UnusableCacheStartup_Configured ==
    [][/\ StartsEmpty
       /\ (FirstCall /\ tgt = PyNone) =>
              /\ last'.posts = (IF haveCreds THEN 1 ELSE 0)
              /\ (~haveCreds => last'.ret = PyNone)
       /\ (ScriptRun /\ Unusable(cache_file, now, boot' # "unreadable")) =>
              /\ last'.posts = (IF haveCreds THEN 1 ELSE 0)
              /\ (~haveCreds => last'.ret = PyNone)]_vars

\* a manager constructed over a file holding an expired ticket started Empty
\* and its first get_valid_tgt has made one request
C28_Witness ==
    /\ boot = "running"
    /\ last.called /\ ~prev.called
    /\ last.pre.tgt = PyNone
    /\ HasJson(last.pre.cache_file)
    /\ ~Falsy(last.pre.cache_file.tgt) /\ ~Falsy(last.pre.cache_file.expiry_time)
    /\ FromIsoformat(last.pre.cache_file.expiry_time).dt <= last.at
    /\ last.posts = 1

\* the request has returned after a retry that was answered 401
RetryRejected ==
    /\ Returned
    /\ Count("data") = 2
    /\ DataCalls[2].status = 401

\* C29: a rejected retry does not invalidate the manager again: the
\* credential fetched for the retry stays in memory and in the cache file as
\* Valid, and the next get_valid_tgt before its expiry returns that token
\* without a request to the authentication endpoint.
C29_RejectedRetryStaysCached ==
    [][/\ (pc = "data2" /\ pc' # pc /\ RetryRejected') =>
              /\ pc' = "idle"
              /\ Count("clear")' = 1
              /\ UNCHANGED <<tgt, expiry_time, cache_file>>
              /\ tgt = DataCalls'[2].tok
              /\ (now < last.at + Lifetime => is_tgt_valid(Cur, now))
              /\ FileAgrees(Cur)
       /\ (/\ pc = "idle" /\ RetryRejected
           /\ now' = now /\ pc' # "exited" /\ boot' = "running"
           /\ now < last.at + Lifetime) =>
              /\ last'.posts = 0
              /\ last'.ret = DataCalls[2].tok]_vars

\* the identities of the records of a data frame
BatchIdentities(df) ==
    {Identity(df[j]) : j \in {k \in 1..Len(df) : HasIdentity(df[k])}}

\* the identities present in a store
StoredIdentities(store) == {StoredIdentity(store[i]) : i \in 1..Len(store)}

\* C30: an upsert call leaves every stored row whose identity does not occur
\* in its batch exactly as it found it (with the times it had before the
\* call), and removes no identity from the store.
C30_OnlyBatchIdentities ==
    [][call'.observed =>
           /\ \A i \in 1..Len(Store) :
                  StoredIdentity(Store[i]) \notin BatchIdentities(call'.df)
                  => (i <= Len(Store') /\ Store'[i] = AsFound(Store)[i])
           /\ StoredIdentities(Store) \subseteq StoredIdentities(Store')]_vars

\* a call has written a record while the store holds a row of an identity
\* that its batch does not name
C30_Witness ==
    /\ call.observed
    /\ call.inserted + call.updated >= 1
    /\ \E i \in 1..Len(Store) :
           StoredIdentity(Store[i]) \notin BatchIdentities(call.df)

====
